---- MODULE Spec2Model ----
(***************************************************************************)
(* Model of the bark_lang front end: the byte-driven lexer of              *)
(* src/src/lexer.rs (tokenize = feed_script ; feed_eof) and the recursive  *)
(* descent parser of src/src/parser.rs, run as a machine with an explicit  *)
(* call stack.                                                             *)
(* Bytes are their ASCII codes, digit buffers hold digit values, tokens    *)
(* are records tagged by "type".                                           *)
(***************************************************************************)
EXTENDS Integers, Sequences, FiniteSets, TLC

VARIABLES script, i, lexer, pc, result, parser, stack, ret

vars == <<script, i, lexer, pc, result, parser, stack, ret>>

(* ---------------------------------------------------------------------- *)
(* Bounds of the model                                                     *)
(* ---------------------------------------------------------------------- *)
MaxLen == 4
MaxNumLen == 6
MaxIdLen == 5
StepFuel == 3
MaxTokens == 4
MaxNestLen == 7
MaxFlatLen == 5
MaxReservedLen == 4

(* ---------------------------------------------------------------------- *)
(* Bytes                                                                   *)
(* ---------------------------------------------------------------------- *)
B == [tab |-> 9, lf |-> 10, cr |-> 13, space |-> 32, hash |-> 35,
      lparen |-> 40, rparen |-> 41, asterisk |-> 42, plus |-> 43,
      comma |-> 44, minus |-> 45, dot |-> 46, slash |-> 47,
      zero |-> 48, one |-> 49, two |-> 50, three |-> 51,
      seven |-> 55, eight |-> 56,
      nine |-> 57, colon |-> 58, semicolon |-> 59, equals |-> 61,
      gt |-> 62, A |-> 65, F |-> 70, G |-> 71, O |-> 79, X |-> 88, Z |-> 90,
      lbracket |-> 91, rbracket |-> 93, underscore |-> 95,
      a |-> 97, b |-> 98, e |-> 101, f |-> 102, g |-> 103, l |-> 108,
      o |-> 111, r |-> 114, t |-> 116, x |-> 120, z |-> 122,
      lbrace |-> 123, rbrace |-> 125]

IsWhitespace(byte) == byte \in {B.space, B.tab, B.cr, B.lf}
IsDigit(byte) == byte \in B.zero .. B.nine
IsUpper(byte) == byte \in B.A .. B.Z
IsLower(byte) == byte \in B.a .. B.z
IsLetter(byte) == IsUpper(byte) \/ IsLower(byte)
IsIdentStart(byte) == IsLetter(byte) \/ byte = B.underscore
IsIdentByte(byte) == IsDigit(byte) \/ IsLetter(byte) \/ byte = B.underscore

(* ---------------------------------------------------------------------- *)
(* Tokens                                                                  *)
(* ---------------------------------------------------------------------- *)
Tok(name) == [type |-> name]
IdentifierToken(bytes) == [type |-> "Identifier", bytes |-> bytes]
IntegerToken(repr, digits) ==
    [type |-> "Integer", repr |-> repr, digits |-> digits]
FloatDecimal(integer, fractional) ==
    [type |-> "Float", repr |-> "Decimal",
     integer |-> integer, fractional |-> fractional]
FloatScientific(integer, fractional, exponent) ==
    [type |-> "Float", repr |-> "Scientific",
     integer |-> integer, fractional |-> fractional, exponent |-> exponent]

(* The twelve keyword spellings of classify_identifier.                    *)
Keywords ==
    [And      |-> <<97, 110, 100>>,
     Else     |-> <<101, 108, 115, 101>>,
     False    |-> <<102, 97, 108, 115, 101>>,
     Function |-> <<102, 117, 110, 99, 116, 105, 111, 110>>,
     If       |-> <<105, 102>>,
     Lambda   |-> <<108, 97, 109, 98, 100, 97>>,
     Let      |-> <<108, 101, 116>>,
     Not      |-> <<110, 111, 116>>,
     Or       |-> <<111, 114>>,
     Return   |-> <<114, 101, 116, 117, 114, 110>>,
     True     |-> <<116, 114, 117, 101>>,
     Xor      |-> <<120, 111, 114>>]

(* ---------------------------------------------------------------------- *)
(* Lexer                                                                   *)
(* ---------------------------------------------------------------------- *)
NewLexer ==
    [state |-> "Start", integer |-> <<>>, fractional |-> <<>>,
     exponent |-> <<>>, identifier |-> <<>>, tokens |-> <<>>]

Continue(lx) == [ok |-> TRUE, action |-> "Continue", lx |-> lx]
Again(lx) == [ok |-> TRUE, action |-> "Again", lx |-> lx]
Err(lx, kind) == [ok |-> FALSE, error |-> kind, lx |-> lx]

Push(lx, token) == [lx EXCEPT !.tokens = Append(@, token)]

StartPunctuation(byte) ==
    CASE byte = B.plus      -> "Plus"
      [] byte = B.asterisk  -> "Asterisk"
      [] byte = B.slash     -> "ForwardSlash"
      [] byte = B.comma     -> "Comma"
      [] byte = B.colon     -> "Colon"
      [] byte = B.semicolon -> "Semicolon"
      [] byte = B.lparen    -> "LeftParenthesis"
      [] byte = B.rparen    -> "RightParenthesis"
      [] byte = B.lbracket  -> "LeftBracket"
      [] byte = B.rbracket  -> "RightBracket"
      [] byte = B.lbrace    -> "LeftBrace"
      [] byte = B.rbrace    -> "RightBrace"
      [] OTHER              -> "None"

run_fsm_start(lx, byte) ==
    IF IsWhitespace(byte) THEN Continue(lx)
    ELSE IF IsIdentStart(byte) THEN
        Continue([lx EXCEPT !.identifier = Append(@, byte),
                            !.state = "Identifier"])
    ELSE IF byte = B.zero THEN Continue([lx EXCEPT !.state = "Zero"])
    ELSE IF byte \in B.one .. B.nine THEN
        Continue([lx EXCEPT !.integer = Append(@, byte - B.zero),
                            !.state = "Integer"])
    ELSE IF byte = B.minus THEN Continue([lx EXCEPT !.state = "Minus"])
    ELSE IF byte = B.dot THEN Continue([lx EXCEPT !.state = "Dot"])
    ELSE IF byte = B.equals THEN Continue([lx EXCEPT !.state = "Equals"])
    ELSE IF StartPunctuation(byte) # "None" THEN
        Continue(Push(lx, Tok(StartPunctuation(byte))))
    ELSE Err(lx, "UnexpectedByte")

classify_identifier_prefix(lx) ==
    LET matching == {k \in DOMAIN Keywords :
                        /\ Len(Keywords[k]) <= Len(lx.identifier)
                        /\ SubSeq(lx.identifier, 1, Len(Keywords[k]))
                              = Keywords[k]}
        token == IF matching # {}
                 THEN Tok(CHOOSE k \in matching : TRUE)
                 ELSE IdentifierToken(lx.identifier)
    IN  Push([lx EXCEPT !.identifier = <<>>], token)

classify_identifier(lx) ==
    LET matching == {k \in DOMAIN Keywords : Keywords[k] = lx.identifier}
        token == IF matching # {}
                 THEN Tok(CHOOSE k \in matching : TRUE)
                 ELSE IdentifierToken(lx.identifier)
    IN  Push([lx EXCEPT !.identifier = <<>>], token)

run_fsm_identifier(lx, byte) ==
    IF IsIdentByte(byte) THEN
        Continue([lx EXCEPT !.identifier = Append(@, byte)])
    ELSE Again([classify_identifier(lx) EXCEPT !.state = "Start"])

run_fsm_zero_leading_ok(lx, byte) ==
    IF byte = B.x THEN Continue([lx EXCEPT !.state = "Hexadecimal"])
    ELSE IF byte = B.o THEN Continue([lx EXCEPT !.state = "Octal"])
    ELSE IF byte = B.b THEN Continue([lx EXCEPT !.state = "Binary"])
    ELSE IF byte = B.dot THEN
        Continue([lx EXCEPT !.integer = Append(@, 0),
                            !.state = "Fractional"])
    ELSE IF IsDigit(byte) THEN
        Continue([lx EXCEPT !.integer = <<0, byte - B.zero>>,
                            !.state = "Integer"])
    ELSE IF IsLetter(byte) THEN Err(lx, "InvalidNumberDigit")
    ELSE Again([Push(lx, IntegerToken("Decimal", <<0>>))
                   EXCEPT !.state = "Start"])

run_fsm_zero_unseeded(lx, byte) ==
    IF byte = B.x THEN Continue([lx EXCEPT !.state = "Hexadecimal"])
    ELSE IF byte = B.o THEN Continue([lx EXCEPT !.state = "Octal"])
    ELSE IF byte = B.b THEN Continue([lx EXCEPT !.state = "Binary"])
    ELSE IF byte = B.dot THEN Continue([lx EXCEPT !.state = "Fractional"])
    ELSE IF IsDigit(byte) THEN Err(lx, "LeadingZeroWithoutBase")
    ELSE IF IsLetter(byte) THEN Err(lx, "InvalidNumberDigit")
    ELSE Again([Push(lx, IntegerToken("Decimal", <<0>>))
                   EXCEPT !.state = "Start"])

run_fsm_zero_exponent(lx, byte) ==
    IF byte = B.x THEN Continue([lx EXCEPT !.state = "Hexadecimal"])
    ELSE IF byte = B.o THEN Continue([lx EXCEPT !.state = "Octal"])
    ELSE IF byte = B.b THEN Continue([lx EXCEPT !.state = "Binary"])
    ELSE IF byte = B.dot THEN
        Continue([lx EXCEPT !.integer = Append(@, 0),
                            !.state = "Fractional"])
    ELSE IF byte = B.e THEN
        Continue([lx EXCEPT !.integer = Append(@, 0),
                            !.state = "Exponent"])
    ELSE IF IsDigit(byte) THEN Err(lx, "LeadingZeroWithoutBase")
    ELSE IF IsLetter(byte) THEN Err(lx, "InvalidNumberDigit")
    ELSE Again([Push(lx, IntegerToken("Decimal", <<0>>))
                   EXCEPT !.state = "Start"])

run_fsm_zero(lx, byte) ==
    IF byte = B.x THEN Continue([lx EXCEPT !.state = "Hexadecimal"])
    ELSE IF byte = B.o THEN Continue([lx EXCEPT !.state = "Octal"])
    ELSE IF byte = B.b THEN Continue([lx EXCEPT !.state = "Binary"])
    ELSE IF byte = B.dot THEN
        Continue([lx EXCEPT !.integer = Append(@, 0),
                            !.state = "Fractional"])
    ELSE IF IsDigit(byte) THEN Err(lx, "LeadingZeroWithoutBase")
    ELSE IF IsLetter(byte) THEN Err(lx, "InvalidNumberDigit")
    ELSE Again([Push(lx, IntegerToken("Decimal", <<0>>))
                   EXCEPT !.state = "Start"])

run_fsm_dot_no_reset(lx, byte) ==
    IF IsDigit(byte) THEN
        Continue([lx EXCEPT !.fractional = Append(@, byte - B.zero),
                            !.state = "Fractional"])
    ELSE Again(Push(lx, Tok("Dot")))

run_fsm_dot_exponent(lx, byte) ==
    IF IsDigit(byte) THEN
        Continue([lx EXCEPT !.fractional = Append(@, byte - B.zero),
                            !.state = "Fractional"])
    ELSE IF byte = B.e THEN Continue([lx EXCEPT !.state = "Exponent"])
    ELSE Again([Push(lx, Tok("Dot")) EXCEPT !.state = "Start"])

run_fsm_dot(lx, byte) ==
    IF IsDigit(byte) THEN
        Continue([lx EXCEPT !.fractional = Append(@, byte - B.zero),
                            !.state = "Fractional"])
    ELSE Again([Push(lx, Tok("Dot")) EXCEPT !.state = "Start"])

run_fsm_integer_raw_byte(lx, byte) ==
    IF IsDigit(byte) THEN Continue([lx EXCEPT !.integer = Append(@, byte)])
    ELSE IF byte = B.dot THEN Continue([lx EXCEPT !.state = "Fractional"])
    ELSE IF byte = B.e THEN Continue([lx EXCEPT !.state = "Exponent"])
    ELSE Again([Push(lx, IntegerToken("Decimal", lx.integer))
                   EXCEPT !.integer = <<>>, !.state = "Start"])

run_fsm_integer(lx, byte) ==
    IF IsDigit(byte) THEN
        Continue([lx EXCEPT !.integer = Append(@, byte - B.zero)])
    ELSE IF byte = B.dot THEN Continue([lx EXCEPT !.state = "Fractional"])
    ELSE IF byte = B.e THEN Continue([lx EXCEPT !.state = "Exponent"])
    ELSE Again([Push(lx, IntegerToken("Decimal", lx.integer))
                   EXCEPT !.integer = <<>>, !.state = "Start"])

run_fsm_hexadecimal_unchecked(lx, byte) ==
    IF IsDigit(byte) THEN
        Continue([lx EXCEPT !.integer = Append(@, byte - B.zero)])
    ELSE IF byte \in B.A .. B.F THEN
        Continue([lx EXCEPT !.integer = Append(@, 10 + (byte - B.A))])
    ELSE IF byte \in B.a .. B.f THEN
        Continue([lx EXCEPT !.integer = Append(@, 10 + (byte - B.a))])
    ELSE IF byte \in B.G .. B.Z \/ byte \in B.g .. B.z THEN
        Err(lx, "InvalidHexadecimalDigit")
    ELSE Again([Push(lx, IntegerToken("Hexadecimal", lx.integer))
                   EXCEPT !.integer = <<>>, !.state = "Start"])

run_fsm_hexadecimal(lx, byte) ==
    IF IsDigit(byte) THEN
        Continue([lx EXCEPT !.integer = Append(@, byte - B.zero)])
    ELSE IF byte \in B.A .. B.F THEN
        Continue([lx EXCEPT !.integer = Append(@, 10 + (byte - B.A))])
    ELSE IF byte \in B.a .. B.f THEN
        Continue([lx EXCEPT !.integer = Append(@, 10 + (byte - B.a))])
    ELSE IF byte \in B.G .. B.Z \/ byte \in B.g .. B.z THEN
        Err(lx, "InvalidHexadecimalDigit")
    ELSE IF Len(lx.integer) = 0 THEN Err(lx, "MissingDigitsAfterBasePrefix")
    ELSE Again([Push(lx, IntegerToken("Hexadecimal", lx.integer))
                   EXCEPT !.integer = <<>>, !.state = "Start"])

run_fsm_octal_any_digit(lx, byte) ==
    IF IsDigit(byte) THEN
        Continue([lx EXCEPT !.integer = Append(@, byte - B.zero)])
    ELSE IF IsLetter(byte) THEN Err(lx, "InvalidOctalDigit")
    ELSE IF Len(lx.integer) = 0 THEN Err(lx, "MissingDigitsAfterBasePrefix")
    ELSE Again([Push(lx, IntegerToken("Octal", lx.integer))
                   EXCEPT !.integer = <<>>, !.state = "Start"])

run_fsm_octal(lx, byte) ==
    IF byte \in B.zero .. B.seven THEN
        Continue([lx EXCEPT !.integer = Append(@, byte - B.zero)])
    ELSE IF byte \in B.eight .. B.nine \/ IsLetter(byte) THEN
        Err(lx, "InvalidOctalDigit")
    ELSE IF Len(lx.integer) = 0 THEN Err(lx, "MissingDigitsAfterBasePrefix")
    ELSE Again([Push(lx, IntegerToken("Octal", lx.integer))
                   EXCEPT !.integer = <<>>, !.state = "Start"])

run_fsm_binary_missing_first(lx, byte) ==
    IF byte \in B.zero .. B.one THEN
        Continue([lx EXCEPT !.integer = Append(@, byte - B.zero)])
    ELSE IF Len(lx.integer) = 0 THEN Err(lx, "MissingDigitsAfterBasePrefix")
    ELSE IF byte \in B.two .. B.nine \/ IsLetter(byte) THEN
        Err(lx, "InvalidBinaryDigit")
    ELSE Again([Push(lx, IntegerToken("Binary", lx.integer))
                   EXCEPT !.integer = <<>>, !.state = "Start"])

run_fsm_binary(lx, byte) ==
    IF byte \in B.zero .. B.one THEN
        Continue([lx EXCEPT !.integer = Append(@, byte - B.zero)])
    ELSE IF byte \in B.two .. B.nine \/ IsLetter(byte) THEN
        Err(lx, "InvalidBinaryDigit")
    ELSE IF Len(lx.integer) = 0 THEN Err(lx, "MissingDigitsAfterBasePrefix")
    ELSE Again([Push(lx, IntegerToken("Binary", lx.integer))
                   EXCEPT !.integer = <<>>, !.state = "Start"])

run_fsm_fractional_keep(lx, byte) ==
    IF IsDigit(byte) THEN
        Continue([lx EXCEPT !.fractional = Append(@, byte - B.zero)])
    ELSE IF byte = B.e THEN Continue([lx EXCEPT !.state = "Exponent"])
    ELSE Again([Push(lx, FloatDecimal(lx.integer, lx.fractional))
                   EXCEPT !.integer = <<>>, !.state = "Start"])

run_fsm_fractional(lx, byte) ==
    IF IsDigit(byte) THEN
        Continue([lx EXCEPT !.fractional = Append(@, byte - B.zero)])
    ELSE IF byte = B.e THEN Continue([lx EXCEPT !.state = "Exponent"])
    ELSE Again([Push(lx, FloatDecimal(lx.integer, lx.fractional))
                   EXCEPT !.integer = <<>>, !.fractional = <<>>,
                          !.state = "Start"])

run_fsm_exponent_checked(lx, byte) ==
    IF IsDigit(byte) THEN
        Continue([lx EXCEPT !.exponent = Append(@, byte - B.zero)])
    ELSE IF Len(lx.exponent) = 0
    THEN Err(lx, "MissingDigitsAfterExponentMark")
    ELSE Again([Push(lx, FloatScientific(lx.integer, lx.fractional,
                                         lx.exponent))
                   EXCEPT !.integer = <<>>, !.fractional = <<>>,
                          !.exponent = <<>>, !.state = "Start"])

run_fsm_exponent(lx, byte) ==
    IF IsDigit(byte) THEN
        Continue([lx EXCEPT !.exponent = Append(@, byte - B.zero)])
    ELSE Again([Push(lx, FloatScientific(lx.integer, lx.fractional,
                                         lx.exponent))
                   EXCEPT !.integer = <<>>, !.fractional = <<>>,
                          !.exponent = <<>>, !.state = "Start"])

run_fsm_equals(lx, byte) ==
    IF byte = B.equals THEN Continue(Push(lx, Tok("Equals")))
    ELSE Again([Push(lx, Tok("Assign")) EXCEPT !.state = "Start"])

run_fsm_minus(lx, byte) ==
    IF byte = B.gt THEN Continue(Push(lx, Tok("RightArrow")))
    ELSE Again([Push(lx, Tok("Minus")) EXCEPT !.state = "Start"])

run_fsm(lx, byte) ==
    CASE lx.state = "Start"       -> run_fsm_start(lx, byte)
      [] lx.state = "Identifier"  -> run_fsm_identifier(lx, byte)
      [] lx.state = "Zero"        -> run_fsm_zero(lx, byte)
      [] lx.state = "Dot"         -> run_fsm_dot(lx, byte)
      [] lx.state = "Integer"     -> run_fsm_integer(lx, byte)
      [] lx.state = "Hexadecimal" -> run_fsm_hexadecimal(lx, byte)
      [] lx.state = "Octal"       -> run_fsm_octal(lx, byte)
      [] lx.state = "Binary"      -> run_fsm_binary(lx, byte)
      [] lx.state = "Fractional"  -> run_fsm_fractional(lx, byte)
      [] lx.state = "Exponent"    -> run_fsm_exponent(lx, byte)
      [] lx.state = "Equals"      -> run_fsm_equals(lx, byte)
      [] lx.state = "Minus"       -> run_fsm_minus(lx, byte)

RECURSIVE feed_byte(_, _)
feed_byte(lx, byte) ==
    LET r == run_fsm(lx, byte)
    IN  IF r.ok /\ r.action = "Again" THEN feed_byte(r.lx, byte) ELSE r

feed_eof(lx) ==
    CASE lx.state = "Start" -> Continue(lx)
      [] lx.state = "Identifier" -> Continue(classify_identifier(lx))
      [] lx.state = "Zero" ->
            Continue(Push(lx, IntegerToken("Decimal", <<0>>)))
      [] lx.state = "Dot" -> Continue(Push(lx, Tok("Dot")))
      [] lx.state = "Integer" ->
            Continue([Push(lx, IntegerToken("Decimal", lx.integer))
                         EXCEPT !.integer = <<>>])
      [] lx.state \in {"Hexadecimal", "Octal", "Binary"} ->
            IF Len(lx.integer) = 0
            THEN Err(lx, "MissingDigitsAfterBasePrefix")
            ELSE Continue([Push(lx, IntegerToken(lx.state, lx.integer))
                              EXCEPT !.integer = <<>>])
      [] lx.state = "Fractional" ->
            Continue([Push(lx, FloatDecimal(lx.integer, lx.fractional))
                         EXCEPT !.integer = <<>>, !.fractional = <<>>])
      [] lx.state = "Exponent" ->
            IF Len(lx.exponent) = 0
            THEN Err(lx, "MissingDigitsAfterExponentMark")
            ELSE Continue([Push(lx, FloatScientific(lx.integer,
                                        lx.fractional, lx.exponent))
                              EXCEPT !.integer = <<>>, !.fractional = <<>>,
                                     !.exponent = <<>>])
      [] lx.state = "Equals" -> Continue(Push(lx, Tok("Assign")))
      [] lx.state = "Minus" -> Continue(Push(lx, Tok("Minus")))

(* ---------------------------------------------------------------------- *)
(* Parser                                                                  *)
(* ---------------------------------------------------------------------- *)
NewParser(tokens) ==
    [tokens |-> tokens, length |-> Len(tokens), offset |-> 0]

eof_token == Tok("EOF")

peek(p) ==
    IF p.offset < Len(p.tokens) THEN p.tokens[p.offset + 1] ELSE eof_token

advance(p) ==
    IF p.offset # p.length THEN [p EXCEPT !.offset = @ + 1] ELSE p

consume_unchecked(p) ==
    IF p.offset < Len(p.tokens)
    THEN [token |-> p.tokens[p.offset + 1],
          parser |-> [p EXCEPT !.offset = @ + 1]]
    ELSE [token |-> eof_token, parser |-> [p EXCEPT !.offset = @ + 1]]

consume(p) ==
    IF p.offset < Len(p.tokens)
    THEN [token |-> p.tokens[p.offset + 1],
          parser |-> [p EXCEPT !.offset = @ + 1]]
    ELSE [token |-> eof_token, parser |-> p]

(* ASTNode *)
NoNode == [type |-> "None"]
ASTIdentifier(token) == [type |-> "Identifier", bytes |-> token.bytes]
IntegerLiteral(token) == [token EXCEPT !.type = "IntegerLiteral"]
FloatLiteral(token) == [token EXCEPT !.type = "FloatLiteral"]
BinaryNode(type, left, right) ==
    [type |-> type, left_operand |-> left, right_operand |-> right]

(* Result<ASTNode, Error> of a call; NoReturn while the callee runs.       *)
NoReturn == [status |-> "None"]
OkNode(node) == [status |-> "Ok", node |-> node]
UnexpectedToken == [status |-> "Err", error |-> "UnexpectedToken"]

(* Activation records: the function, where it resumes, and its locals.     *)
Frame(fn, at, operand, op) ==
    [fn |-> fn, at |-> at, operand |-> operand, op |-> op]

(* parse_expression calls parse_term, which calls parse_factor, which      *)
(* calls parse_primary, without touching the parser in between.            *)
CallFactor ==
    <<Frame("parse_factor", "parse_primary", NoNode, "None"),
      Frame("parse_primary", "entry", NoNode, "None")>>
CallExpression ==
    <<Frame("parse_expression", "parse_term", NoNode, "None"),
      Frame("parse_term", "parse_factor", NoNode, "None")>> \o CallFactor

Top == stack[Len(stack)]
Pop == SubSeq(stack, 1, Len(stack) - 1)
At(fn, at) == stack # <<>> /\ Top.fn = fn /\ Top.at = at
ReplaceTop(frame) == Append(Pop, frame)

(* ---------------------------------------------------------------------- *)
(* tokenize as a state machine                                             *)
(* ---------------------------------------------------------------------- *)
Pending == [status |-> "Pending"]
OkResult(tokens) == [status |-> "Ok", tokens |-> tokens]
ErrResult(kind, offset) ==
    [status |-> "Err", kind |-> kind, offset |-> offset]

FeedScriptStep_offset_after ==
    /\ pc = "feed_script"
    /\ i < Len(script)
    /\ LET r == feed_byte(lexer, script[i + 1])
       IN  /\ lexer' = r.lx
           /\ IF r.ok
              THEN /\ i' = i + 1
                   /\ UNCHANGED <<pc, result>>
              ELSE /\ result' = ErrResult(r.error, i + 1)
                   /\ pc' = "returned"
                   /\ UNCHANGED i
    /\ UNCHANGED <<script, parser, stack, ret>>

(* One iteration of the for loop of feed_script.                          *)
FeedScriptStep ==
    /\ pc = "feed_script"
    /\ i < Len(script)
    /\ LET r == feed_byte(lexer, script[i + 1])
       IN  /\ lexer' = r.lx
           /\ IF r.ok
              THEN /\ i' = i + 1
                   /\ UNCHANGED <<pc, result>>
              ELSE /\ result' = ErrResult(r.error, i)
                   /\ pc' = "returned"
                   /\ UNCHANGED i
    /\ UNCHANGED <<script, parser, stack, ret>>

(* The loop of feed_script is over: feed_eof, then tokenize returns.       *)
FeedEof ==
    /\ pc = "feed_script"
    /\ i = Len(script)
    /\ LET r == feed_eof(lexer)
       IN  IF r.ok
           THEN /\ result' = OkResult(r.lx.tokens)
                /\ lexer' = [r.lx EXCEPT !.tokens = <<>>]
           ELSE /\ result' = ErrResult(r.error, Len(script))
                /\ lexer' = r.lx
    /\ pc' = "returned"
    /\ UNCHANGED <<script, i, parser, stack, ret>>

Next == FeedScriptStep \/ FeedEof

InitWith(S, n) ==
    /\ \E k \in 0 .. n : script \in [1 .. k -> S]
    /\ i = 0
    /\ lexer = NewLexer
    /\ pc = "feed_script"
    /\ result = Pending
    /\ parser = NewParser(<<>>)
    /\ stack = <<>>
    /\ ret = NoReturn

(* Operators, punctuation, radix prefixes and stray bytes.                 *)
Alphabet ==
    {B.space, B.hash, B.comma, B.minus, B.dot, B.zero, B.one, B.eight,
     B.equals, B.gt, B.X, B.b, B.e, B.g, B.o, B.x}
Init == InitWith(Alphabet, MaxLen)
Spec == Init /\ [][Next]_vars

(* Decimal and floating literals.                                          *)
NumAlphabet == {B.comma, B.dot, B.zero, B.one, B.nine, B.e}
InitNum == InitWith(NumAlphabet, MaxNumLen)
SpecNum == InitNum /\ [][Next]_vars

(* Identifiers and keywords.                                               *)
IdAlphabet ==
    {B.space, B.dot, B.one, B.underscore, B.e, B.l, B.o, B.r, B.t, B.x}
InitId == InitWith(IdAlphabet, MaxIdLen)
SpecId == InitId /\ [][Next]_vars

(* Radix literals: digits in and out of range of each radix.               *)
RadixAlphabet == {B.comma, B.zero, B.one, B.two, B.seven, B.eight,
                  B.F, B.G, B.Z, B.b, B.f, B.g, B.o, B.x, B.z}
InitRadix == InitWith(RadixAlphabet, MaxLen)
SpecRadix == InitRadix /\ [][Next]_vars

(* A zero and what follows it: prefix letters in both cases, 'e', other    *)
(* letters.                                                                *)
ZeroAlphabet == {B.comma, B.dot, B.zero, B.one, B.A + 1, B.O, B.X, B.Z,
                 B.a, B.b, B.e, B.o, B.x, B.z}
InitZero == InitWith(ZeroAlphabet, MaxLen)
SpecZero == InitZero /\ [][Next]_vars

(* ---------------------------------------------------------------------- *)
(* parse as a state machine                                                *)
(* ---------------------------------------------------------------------- *)
LexerIdle == UNCHANGED <<script, i, lexer, pc, result>>

ParseBegin_any_third ==
    /\ At("parse", "entry")
    /\ LET c1 == consume(parser)
           c2 == consume(c1.parser)
           c3 == consume(c2.parser)
       IN  IF c1.token.type # "Let"
           THEN /\ parser' = c1.parser
                /\ stack' = Pop
                /\ ret' = UnexpectedToken
           ELSE IF c2.token.type # "Identifier"
           THEN /\ parser' = c2.parser
                /\ stack' = Pop
                /\ ret' = UnexpectedToken
           ELSE /\ parser' = c3.parser
                /\ stack' = ReplaceTop(Frame("parse", "parse_expression",
                                  ASTIdentifier(c2.token), "None"))
                              \o CallExpression
                /\ ret' = NoReturn
    /\ LexerIdle

(* Parser::parse up to its call of parse_expression.                       *)
ParseBegin ==
    /\ At("parse", "entry")
    /\ LET c1 == consume(parser)
           c2 == consume(c1.parser)
           c3 == consume(c2.parser)
       IN  IF c1.token.type # "Let"
           THEN /\ parser' = c1.parser
                /\ stack' = Pop
                /\ ret' = UnexpectedToken
           ELSE IF c2.token.type # "Identifier"
           THEN /\ parser' = c2.parser
                /\ stack' = Pop
                /\ ret' = UnexpectedToken
           ELSE IF c3.token.type # "Assign"
           THEN /\ parser' = c3.parser
                /\ stack' = Pop
                /\ ret' = UnexpectedToken
           ELSE /\ parser' = c3.parser
                /\ stack' = ReplaceTop(Frame("parse", "parse_expression",
                                  ASTIdentifier(c2.token), "None"))
                              \o CallExpression
                /\ ret' = NoReturn
    /\ LexerIdle

ParseEnd_consume_terminator ==
    /\ At("parse", "parse_expression")
    /\ ret # NoReturn
    /\ ret' = IF ret.status = "Ok"
              THEN OkNode(BinaryNode("Assign", Top.operand, ret.node))
              ELSE ret
    /\ stack' = Pop
    /\ parser' = consume(parser).parser
    /\ LexerIdle

(* Parser::parse once parse_expression has returned.                       *)
ParseEnd ==
    /\ At("parse", "parse_expression")
    /\ ret # NoReturn
    /\ ret' = IF ret.status = "Ok"
              THEN OkNode(BinaryNode("Assign", Top.operand, ret.node))
              ELSE ret
    /\ stack' = Pop
    /\ UNCHANGED parser
    /\ LexerIdle

(* Parser::parse_expression once parse_term has returned.                  *)
Expression ==
    /\ At("parse_expression", "parse_term")
    /\ ret # NoReturn
    /\ stack' = Pop
    /\ UNCHANGED <<parser, ret>>
    /\ LexerIdle

Term_fold_right ==
    /\ At("parse_term", "parse_factor")
    /\ ret # NoReturn
    /\ IF ret.status = "Err"
       THEN /\ stack' = Pop
            /\ UNCHANGED <<parser, ret>>
       ELSE LET operand == IF Top.op = "None" THEN ret.node
                           ELSE BinaryNode(Top.op, ret.node, Top.operand)
                next == peek(parser)
            IN  IF next.type = "Plus"
                THEN /\ parser' = consume(parser).parser
                     /\ stack' = ReplaceTop(Frame("parse_term",
                             "parse_factor", operand, "BinaryAddition"))
                                   \o CallFactor
                     /\ ret' = NoReturn
                ELSE IF next.type = "Minus"
                THEN /\ parser' = consume(parser).parser
                     /\ stack' = ReplaceTop(Frame("parse_term",
                             "parse_factor", operand, "BinarySubtraction"))
                                   \o CallFactor
                     /\ ret' = NoReturn
                ELSE /\ ret' = OkNode(operand)
                     /\ stack' = Pop
                     /\ UNCHANGED parser
    /\ LexerIdle

(* Parser::parse_term once a parse_factor has returned: fold the operand,  *)
(* then the loop head.                                                     *)
Term_keeps_operator ==
    /\ At("parse_term", "parse_factor")
    /\ ret # NoReturn
    /\ IF ret.status = "Err"
       THEN /\ stack' = Pop
            /\ UNCHANGED <<parser, ret>>
       ELSE LET operand == IF Top.op = "None" THEN ret.node
                           ELSE BinaryNode(Top.op, Top.operand, ret.node)
                next == peek(parser)
            IN  IF next.type = "Plus"
                THEN /\ parser' = parser
                     /\ stack' = ReplaceTop(Frame("parse_term",
                             "parse_factor", operand, "BinaryAddition"))
                                   \o CallFactor
                     /\ ret' = NoReturn
                ELSE IF next.type = "Minus"
                THEN /\ parser' = consume(parser).parser
                     /\ stack' = ReplaceTop(Frame("parse_term",
                             "parse_factor", operand, "BinarySubtraction"))
                                   \o CallFactor
                     /\ ret' = NoReturn
                ELSE /\ ret' = OkNode(operand)
                     /\ stack' = Pop
                     /\ UNCHANGED parser
    /\ LexerIdle

Term ==
    /\ At("parse_term", "parse_factor")
    /\ ret # NoReturn
    /\ IF ret.status = "Err"
       THEN /\ stack' = Pop
            /\ UNCHANGED <<parser, ret>>
       ELSE LET operand == IF Top.op = "None" THEN ret.node
                           ELSE BinaryNode(Top.op, Top.operand, ret.node)
                next == peek(parser)
            IN  IF next.type = "Plus"
                THEN /\ parser' = consume(parser).parser
                     /\ stack' = ReplaceTop(Frame("parse_term",
                             "parse_factor", operand, "BinaryAddition"))
                                   \o CallFactor
                     /\ ret' = NoReturn
                ELSE IF next.type = "Minus"
                THEN /\ parser' = consume(parser).parser
                     /\ stack' = ReplaceTop(Frame("parse_term",
                             "parse_factor", operand, "BinarySubtraction"))
                                   \o CallFactor
                     /\ ret' = NoReturn
                ELSE /\ ret' = OkNode(operand)
                     /\ stack' = Pop
                     /\ UNCHANGED parser
    /\ LexerIdle

Factor_binds_plus ==
    /\ At("parse_factor", "parse_primary")
    /\ ret # NoReturn
    /\ IF ret.status = "Err"
       THEN /\ stack' = Pop
            /\ UNCHANGED <<parser, ret>>
       ELSE LET operand == IF Top.op = "None" THEN ret.node
                           ELSE BinaryNode(Top.op, Top.operand, ret.node)
                next == peek(parser)
            IN  IF next.type = "Plus"
                THEN /\ parser' = consume(parser).parser
                     /\ stack' = Append(
                           ReplaceTop(Frame("parse_factor", "parse_primary",
                               operand, "BinaryAddition")),
                           Frame("parse_primary", "entry", NoNode, "None"))
                     /\ ret' = NoReturn
                ELSE IF next.type = "Minus"
                THEN /\ parser' = consume(parser).parser
                     /\ stack' = Append(
                           ReplaceTop(Frame("parse_factor", "parse_primary",
                               operand, "BinarySubtraction")),
                           Frame("parse_primary", "entry", NoNode, "None"))
                     /\ ret' = NoReturn
                ELSE /\ ret' = OkNode(operand)
                     /\ stack' = Pop
                     /\ UNCHANGED parser
    /\ LexerIdle

(* Parser::parse_factor once a parse_primary has returned.                 *)
Factor ==
    /\ At("parse_factor", "parse_primary")
    /\ ret # NoReturn
    /\ IF ret.status = "Err"
       THEN /\ stack' = Pop
            /\ UNCHANGED <<parser, ret>>
       ELSE LET operand == IF Top.op = "None" THEN ret.node
                           ELSE BinaryNode(Top.op, Top.operand, ret.node)
                next == peek(parser)
            IN  IF next.type = "Asterisk"
                THEN /\ parser' = consume(parser).parser
                     /\ stack' = Append(
                           ReplaceTop(Frame("parse_factor", "parse_primary",
                               operand, "BinaryMultiplication")),
                           Frame("parse_primary", "entry", NoNode, "None"))
                     /\ ret' = NoReturn
                ELSE IF next.type = "ForwardSlash"
                THEN /\ parser' = consume(parser).parser
                     /\ stack' = Append(
                           ReplaceTop(Frame("parse_factor", "parse_primary",
                               operand, "BinaryDivision")),
                           Frame("parse_primary", "entry", NoNode, "None"))
                     /\ ret' = NoReturn
                ELSE /\ ret' = OkNode(operand)
                     /\ stack' = Pop
                     /\ UNCHANGED parser
    /\ LexerIdle

Primary_skips_sign ==
    /\ At("parse_primary", "entry")
    /\ LET c == consume(parser)
       IN  /\ parser' = c.parser
           /\ IF c.token.type \in {"Plus", "Minus"}
              THEN stack' = stack /\ ret' = NoReturn
              ELSE IF c.token.type = "Identifier"
              THEN stack' = Pop /\ ret' = OkNode(ASTIdentifier(c.token))
              ELSE IF c.token.type = "Integer"
              THEN stack' = Pop /\ ret' = OkNode(IntegerLiteral(c.token))
              ELSE IF c.token.type = "Float"
              THEN stack' = Pop /\ ret' = OkNode(FloatLiteral(c.token))
              ELSE IF c.token.type = "LeftParenthesis"
              THEN /\ stack' = ReplaceTop(Frame("parse_primary",
                                  "parse_expression", NoNode, "None"))
                                \o CallExpression
                   /\ ret' = NoReturn
              ELSE stack' = Pop /\ ret' = UnexpectedToken
    /\ LexerIdle

(* Parser::parse_primary from its entry.                                   *)
Primary ==
    /\ At("parse_primary", "entry")
    /\ LET c == consume(parser)
       IN  /\ parser' = c.parser
           /\ IF c.token.type = "Identifier"
              THEN stack' = Pop /\ ret' = OkNode(ASTIdentifier(c.token))
              ELSE IF c.token.type = "Integer"
              THEN stack' = Pop /\ ret' = OkNode(IntegerLiteral(c.token))
              ELSE IF c.token.type = "Float"
              THEN stack' = Pop /\ ret' = OkNode(FloatLiteral(c.token))
              ELSE IF c.token.type = "LeftParenthesis"
              THEN /\ stack' = ReplaceTop(Frame("parse_primary",
                                  "parse_expression", NoNode, "None"))
                                \o CallExpression
                   /\ ret' = NoReturn
              ELSE stack' = Pop /\ ret' = UnexpectedToken
    /\ LexerIdle

PrimaryClose_unchecked ==
    /\ At("parse_primary", "parse_expression")
    /\ ret # NoReturn
    /\ IF ret.status = "Err"
       THEN UNCHANGED <<parser, ret>>
       ELSE LET c == consume(parser)
            IN  /\ parser' = c.parser
                /\ ret' = ret
    /\ stack' = Pop
    /\ LexerIdle

(* Parser::parse_primary once the parenthesised expression has returned.   *)
PrimaryClose ==
    /\ At("parse_primary", "parse_expression")
    /\ ret # NoReturn
    /\ IF ret.status = "Err"
       THEN UNCHANGED <<parser, ret>>
       ELSE LET c == consume(parser)
            IN  /\ parser' = c.parser
                /\ ret' = IF c.token.type = "RightParenthesis"
                          THEN ret ELSE UnexpectedToken
    /\ stack' = Pop
    /\ LexerIdle

NextParse ==
    \/ ParseBegin \/ ParseEnd \/ Expression \/ Term \/ Factor
    \/ Primary \/ PrimaryClose

(* parse(tokens): Parser::new, then Parser::parse is entered.              *)
InitParse(heads, S, n) ==
    /\ \E head \in heads : \E k \in 0 .. n : \E body \in [1 .. k -> S] :
          parser = NewParser(head \o body)
    /\ stack = <<Frame("parse", "entry", NoNode, "None")>>
    /\ ret = NoReturn
    /\ script = <<>>
    /\ i = 0
    /\ lexer = NewLexer
    /\ pc = "idle"
    /\ result = Pending

LetHead == <<Tok("Let"), IdentifierToken(<<B.x>>), Tok("Assign")>>

(* Statements: any short token sequence, and let x = followed by one.      *)
ParseAlphabet ==
    {Tok("Let"), IdentifierToken(<<B.x>>), Tok("Assign"),
     IntegerToken("Decimal", <<1, 2, 3>>), FloatDecimal(<<1>>, <<5>>),
     Tok("Plus"), Tok("Asterisk"), Tok("LeftParenthesis"),
     Tok("RightParenthesis"), Tok("Semicolon")}
InitStatement == InitParse({<<>>, LetHead}, ParseAlphabet, MaxTokens)
SpecParse == InitStatement /\ [][NextParse]_vars

(* Expressions after the head let x =.  The n-th operand of a sequence is  *)
(* the integer literal n, so that every operand of a tree is told apart.   *)
RECURSIVE Digits(_)
Digits(n) == IF n < 10 THEN <<n>> ELSE Digits(n \div 10) \o <<n % 10>>

Operand == IntegerToken("Decimal", <<0>>)
NthOperand(n) == IntegerToken("Decimal", Digits(n))

Number(body) ==
    [j \in 1 .. Len(body) |->
        IF body[j].type = "Integer"
        THEN NthOperand(Cardinality({m \in 1 .. j : body[m].type = "Integer"}))
        ELSE body[j]]

NestAlphabet == {Operand, Tok("Plus"), Tok("Asterisk"),
                 Tok("LeftParenthesis"), Tok("RightParenthesis")}
FlatAlphabet == {Operand, Tok("Plus"), Tok("Minus"), Tok("Asterisk"),
                 Tok("ForwardSlash")}

InitExpression ==
    /\ \/ \E k \in 0 .. MaxNestLen : \E body \in [1 .. k -> NestAlphabet] :
             parser = NewParser(LetHead \o Number(body))
       \/ \E k \in 0 .. MaxFlatLen : \E body \in [1 .. k -> FlatAlphabet] :
             parser = NewParser(LetHead \o Number(body))
    /\ stack = <<Frame("parse", "entry", NoNode, "None")>>
    /\ ret = NoReturn
    /\ script = <<>>
    /\ i = 0
    /\ lexer = NewLexer
    /\ pc = "idle"
    /\ result = Pending

SpecExpr == InitExpression /\ [][NextParse]_vars

(* Expressions with the reserved words and with signs.                     *)
ReservedAlphabet == {IdentifierToken(<<B.x>>), Tok("Plus"), Tok("Minus"),
                     Tok("And"), Tok("Or"), Tok("Not"), Tok("Xor"),
                     Tok("LeftParenthesis"), Tok("RightParenthesis")}
InitReserved == InitParse({LetHead}, ReservedAlphabet, MaxReservedLen)
SpecReserved == InitReserved /\ [][NextParse]_vars

(* parse under the scheduling of a sequential program: a call that can     *)
(* take its next step takes it.                                            *)
SpecParseFair == SpecParse /\ WF_vars(NextParse)

TypeOK ==
    /\ i \in 0 .. Len(script)
    /\ pc \in {"feed_script", "returned", "idle"}
    /\ result.status \in {"Pending", "Ok", "Err"}
    /\ (pc = "returned") = (result.status # "Pending")
(* ---------------------------------------------------------------------- *)
(* Vocabulary of the properties                                            *)
(* ---------------------------------------------------------------------- *)
Returned == pc = "returned"

(* Every token pushed so far: tokenize hands the vector over on success.   *)
Emitted == IF result.status = "Ok" THEN result.tokens ELSE lexer.tokens

CountType(tokens, type) ==
    Cardinality({k \in 1 .. Len(tokens) : tokens[k].type = type})

ByteAt(s, p) == IF p \in 1 .. Len(s) THEN s[p] ELSE -1

(* Digit bytes converted to digit values, in order.                        *)
Values(bytes) == [k \in 1 .. Len(bytes) |-> bytes[k] - B.zero]

(* Positions p at which a maximal run of `byte` of length n starts.        *)
RunsOf(s, byte, n) ==
    {p \in 1 .. Len(s) :
        /\ ByteAt(s, p - 1) # byte
        /\ \A k \in p .. p + n - 1 : ByteAt(s, k) = byte
        /\ ByteAt(s, p + n) # byte}

LongRun(s, byte) ==
    \E p \in 1 .. Len(s) : \A k \in p .. p + 2 : ByteAt(s, k) = byte

(* C1: on every accepted input whose '=' runs have length one or two, each *)
(* lone '=' yields exactly one Assign and each '==' exactly one Equals, so *)
(* the Assign and Equals tokens are as many as the runs of each length.    *)
C1_EqualsRunsOneToken ==
    (result.status = "Ok" /\ ~LongRun(script, B.equals)) =>
        /\ CountType(result.tokens, "Assign")
              = Cardinality(RunsOf(script, B.equals, 1))
        /\ CountType(result.tokens, "Equals")
              = Cardinality(RunsOf(script, B.equals, 2))

(* C2: on every accepted input each '-' not followed by '>' yields exactly *)
(* one Minus and each '->' exactly one RightArrow and nothing else.        *)
C2_MinusArrowOneToken ==
    result.status = "Ok" =>
        /\ CountType(result.tokens, "Minus")
              = Cardinality({p \in 1 .. Len(script) :
                    script[p] = B.minus /\ ByteAt(script, p + 1) # B.gt})
        /\ CountType(result.tokens, "RightArrow")
              = Cardinality({p \in 1 .. Len(script) :
                    script[p] = B.minus /\ ByteAt(script, p + 1) = B.gt})

(* C3: every Float Scientific token ever emitted, mid-stream or at end of  *)
(* input, has a non-empty exponent digit sequence.                         *)
C3_ScientificExponentNonEmpty ==
    \A k \in 1 .. Len(Emitted) :
        (Emitted[k].type = "Float" /\ Emitted[k].repr = "Scientific")
            => Emitted[k].exponent # <<>>
Radix(repr) ==
    CASE repr = "Decimal" -> 10
      [] repr = "Hexadecimal" -> 16
      [] repr = "Octal" -> 8
      [] repr = "Binary" -> 2

DigitsBelow(digits, radix) ==
    \A k \in 1 .. Len(digits) : digits[k] \in 0 .. radix - 1

(* C4: every digit value of an emitted Integer or Float token is below its *)
(* radix (10 for Decimal and all float fields, 16, 8, 2 for Hexadecimal,   *)
(* Octal, Binary), and so is every digit of the pending buffers in every   *)
(* reachable lexer state.                                                  *)
C4_DigitsBelowRadix ==
    /\ \A k \in 1 .. Len(Emitted) :
          LET token == Emitted[k]
          IN  /\ token.type = "Integer"
                    => DigitsBelow(token.digits, Radix(token.repr))
              /\ token.type = "Float"
                    => /\ DigitsBelow(token.integer, 10)
                       /\ DigitsBelow(token.fractional, 10)
                       /\ token.repr = "Scientific"
                            => DigitsBelow(token.exponent, 10)
    /\ DigitsBelow(lexer.integer,
                   IF lexer.state \in {"Hexadecimal", "Octal", "Binary"}
                   THEN Radix(lexer.state) ELSE 10)
    /\ DigitsBelow(lexer.fractional, 10)
    /\ DigitsBelow(lexer.exponent, 10)

(* A hexadecimal literal with a letter digit was emitted.                  *)
C4_Witness ==
    /\ result.status = "Ok"
    /\ \E k \in 1 .. Len(result.tokens) :
          result.tokens[k] = IntegerToken("Hexadecimal", <<11, 1>>)

RECURSIVE FeedFrom(_, _, _)
FeedFrom(lx, s, k) ==
    IF k > Len(s) THEN Continue(lx)
    ELSE LET r == feed_byte(lx, s[k])
         IN  IF r.ok THEN FeedFrom(r.lx, s, k + 1) ELSE r

(* The state machine accepts every byte of s, fed to a fresh lexer.        *)
Accepts(s) == FeedFrom(NewLexer, s, 1).ok

StartAccepts(byte) ==
    \/ IsWhitespace(byte) \/ IsIdentStart(byte) \/ IsDigit(byte)
    \/ byte \in {B.plus, B.minus, B.asterisk, B.slash, B.dot, B.comma,
                 B.colon, B.semicolon, B.equals, B.lparen, B.rparen,
                 B.lbracket, B.rbracket, B.lbrace, B.rbrace}

EofErrors ==
    {"MissingDigitsAfterBasePrefix", "MissingDigitsAfterExponentMark"}

(* C5: a failure carries the index of the first byte the state machine     *)
(* rejects: every byte before it was accepted and the byte itself is not,  *)
(* also when it is rejected by Start after a reconsume; a failure found    *)
(* only at end of input carries the buffer length, and                     *)
(* MissingDigitsAfterExponentMark always does.                             *)
C5_ErrorOffset ==
    result.status = "Err" =>
        /\ result.offset = i
        /\ result.offset \in 0 .. Len(script)
        /\ Accepts(SubSeq(script, 1, result.offset))
        /\ result.offset < Len(script)
              => ~Accepts(SubSeq(script, 1, result.offset + 1))
        /\ result.offset = Len(script) => result.kind \in EofErrors
        /\ result.kind = "MissingDigitsAfterExponentMark"
              => result.offset = Len(script)
        /\ result.kind = "UnexpectedByte"
              => /\ result.offset < Len(script)
                 /\ ~StartAccepts(script[result.offset + 1])

(* A byte rejected by Start after the reconsume that emitted a token.      *)
C5_Witness ==
    /\ script = <<B.one, B.hash>>
    /\ result = ErrResult("UnexpectedByte", 1)
    /\ lexer.tokens = <<IntegerToken("Decimal", <<1>>)>>
(* The tokens pushed by the step under consideration.                      *)
NewTokens == SubSeq(Emitted', Len(Emitted) + 1, Len(Emitted'))

(* Start of the maximal run of decimal digits that ends at position t.     *)
DigitRunStart(s, t) ==
    CHOOSE p \in 1 .. t :
        /\ \A k \in p .. t : IsDigit(s[k])
        /\ ~IsDigit(ByteAt(s, p - 1))

(* Position p is offered to Start: the byte before it ends its own token.  *)
TokenInitial(s, p) ==
    p = 1 \/ (~IsIdentByte(s[p - 1]) /\ s[p - 1] # B.dot)

(* The bytes consumed so far end with a maximal digit run that starts a    *)
(* token with 1-9 and is followed by neither a digit, '.' nor 'e'.         *)
DecimalRunEndsHere ==
    /\ pc = "feed_script"
    /\ i >= 1
    /\ IsDigit(script[i])
    /\ ~IsDigit(ByteAt(script, i + 1))
    /\ ByteAt(script, i + 1) \notin {B.dot, B.e}
    /\ script[DigitRunStart(script, i)] \in B.one .. B.nine
    /\ TokenInitial(script, DigitRunStart(script, i))

(* C6: the step that ends a maximal digit run starting a token with 1-9    *)
(* and not followed by '.' or 'e' (its next byte, or end of input) emits   *)
(* Integer(Decimal(d)) with d the values of the run's digits in order.     *)
C6_DecimalRunDigits ==
    [][DecimalRunEndsHere =>
          /\ Len(NewTokens) >= 1
          /\ NewTokens[1] = IntegerToken("Decimal",
                Values(SubSeq(script, DigitRunStart(script, i), i)))]_vars

(* "19,1" was tokenized: the run 19 ended mid-stream, the run 1 at the end.*)
C6_Witness ==
    /\ script = <<B.one, B.nine, B.comma, B.one>>
    /\ result = OkResult(<<IntegerToken("Decimal", <<1, 9>>), Tok("Comma"),
                           IntegerToken("Decimal", <<1>>)>>)

AllDigits(s) == \A k \in 1 .. Len(s) : IsDigit(s[k])

(* An integer part: empty, the single digit 0, or without a leading zero.  *)
PlainInteger(I) == I = <<>> \/ I = <<B.zero>> \/ I[1] # B.zero

(* The literal that starts the script: the bytes before the first byte     *)
(* that is neither a digit, '.' nor 'e'.                                   *)
Literal(s) ==
    LET ends == {p \in 1 .. Len(s) :
                    ~IsDigit(s[p]) /\ s[p] \notin {B.dot, B.e}}
    IN  IF ends = {} THEN s
        ELSE SubSeq(s, 1, (CHOOSE p \in ends : \A q \in ends : p <= q) - 1)

(* I '.' F *)
ExpectedDecimal(lit) ==
    {FloatDecimal(Values(SubSeq(lit, 1, p - 1)),
                  Values(SubSeq(lit, p + 1, Len(lit)))) :
        p \in {p \in 1 .. Len(lit) :
                 /\ lit[p] = B.dot
                 /\ AllDigits(SubSeq(lit, 1, p - 1))
                 /\ AllDigits(SubSeq(lit, p + 1, Len(lit)))
                 /\ PlainInteger(SubSeq(lit, 1, p - 1))
                 /\ Len(lit) > 1}}

(* I '.' F 'e' E *)
ExpectedScientificDot(lit) ==
    {FloatScientific(Values(SubSeq(lit, 1, pq[1] - 1)),
                     Values(SubSeq(lit, pq[1] + 1, pq[2] - 1)),
                     Values(SubSeq(lit, pq[2] + 1, Len(lit)))) :
        pq \in {pq \in (1 .. Len(lit)) \X (1 .. Len(lit)) :
                 /\ pq[1] < pq[2]
                 /\ lit[pq[1]] = B.dot
                 /\ lit[pq[2]] = B.e
                 /\ AllDigits(SubSeq(lit, 1, pq[1] - 1))
                 /\ AllDigits(SubSeq(lit, pq[1] + 1, pq[2] - 1))
                 /\ AllDigits(SubSeq(lit, pq[2] + 1, Len(lit)))
                 /\ PlainInteger(SubSeq(lit, 1, pq[1] - 1))
                 /\ pq[2] > 2
                 /\ pq[2] < Len(lit)}}

(* I 'e' E, with I = "0" admitted or not *)
ExpectedScientificNoDot(lit, zero) ==
    {FloatScientific(Values(SubSeq(lit, 1, q - 1)), <<>>,
                     Values(SubSeq(lit, q + 1, Len(lit)))) :
        q \in {q \in 2 .. Len(lit) - 1 :
                 /\ lit[q] = B.e
                 /\ AllDigits(SubSeq(lit, 1, q - 1))
                 /\ AllDigits(SubSeq(lit, q + 1, Len(lit)))
                 /\ PlainInteger(SubSeq(lit, 1, q - 1))
                 /\ zero \/ lit[1] # B.zero}}

LiteralYields(expected) ==
    Returned =>
        \A token \in expected :
            /\ Len(Emitted) >= 1
            /\ Emitted[1] = token
            /\ Literal(script) = script => result = OkResult(<<token>>)

(* C7 as claimed: a literal I '.' F or I ['.' F] 'e' E (I, F not both      *)
(* empty, I either "0" or without a leading zero, E non-empty) is emitted  *)
(* as one Float token whose fields are the digit values of I, F and E.     *)
C7_FloatLiteralFields ==
    LiteralYields(ExpectedDecimal(Literal(script))
                  \cup ExpectedScientificDot(Literal(script))
                  \cup ExpectedScientificNoDot(Literal(script), TRUE))

(* C7 amended: the same, except that in the form I 'e' E without '.' the   *)
(* integer part I is not "0" (in the Zero state 'e' is a letter and fails  *)
(* with InvalidNumberDigit).                                               *)
C7_FloatLiteralFieldsAmended ==
    LiteralYields(ExpectedDecimal(Literal(script))
                  \cup ExpectedScientificDot(Literal(script))
                  \cup ExpectedScientificNoDot(Literal(script), FALSE))

(* "0.9e1" was tokenized.                                                  *)
C7_Witness ==
    /\ script = <<B.zero, B.dot, B.nine, B.e, B.one>>
    /\ result = OkResult(<<FloatScientific(<<0>>, <<9>>, <<1>>)>>)
(* The last byte consumed is a '0' that starts a token.                    *)
ZeroStartsTokenHere ==
    /\ pc = "feed_script"
    /\ i >= 1
    /\ script[i] = B.zero
    /\ TokenInitial(script, i)

DecimalWellFormed ==
    \A k \in 1 .. Len(Emitted) :
        (Emitted[k].type = "Integer" /\ Emitted[k].repr = "Decimal")
            => /\ Emitted[k].digits # <<>>
               /\ Emitted[k].digits[1] = 0 => Emitted[k].digits = <<0>>

(* C8: after a token-initial '0', a decimal digit fails with               *)
(* LeadingZeroWithoutBase at that digit's offset, while end of input or a  *)
(* byte that is no digit, letter or '.' emits exactly                      *)
(* Integer(Decimal([0])); every emitted Integer(Decimal(d)) has d          *)
(* non-empty, with d[0] = 0 only when d = [0].                             *)
C8_LeadingZero ==
    [][/\ (ZeroStartsTokenHere /\ IsDigit(ByteAt(script, i + 1)))
            => result' = ErrResult("LeadingZeroWithoutBase", i)
       /\ (/\ ZeroStartsTokenHere
           /\ ~IsDigit(ByteAt(script, i + 1))
           /\ ~IsLetter(ByteAt(script, i + 1))
           /\ ByteAt(script, i + 1) # B.dot)
            => /\ Len(NewTokens) >= 1
               /\ NewTokens[1] = IntegerToken("Decimal", <<0>>)
               /\ i = Len(script)
                    => /\ NewTokens = <<IntegerToken("Decimal", <<0>>)>>
                       /\ result'.status = "Ok"
       /\ DecimalWellFormed']_vars

(* "=01" failed on its second digit.                                       *)
C8_Witness ==
    /\ script = <<B.equals, B.zero, B.one>>
    /\ result = ErrResult("LeadingZeroWithoutBase", 2)

IsAlphanumeric(byte) == IsDigit(byte) \/ IsLetter(byte)

(* The last byte consumed completes a radix prefix 0x, 0o or 0b.           *)
RadixPrefixHere ==
    /\ pc = "feed_script"
    /\ i >= 2
    /\ script[i] \in {B.x, B.o, B.b}
    /\ script[i - 1] = B.zero
    /\ TokenInitial(script, i - 1)

RadixNonEmpty ==
    \A k \in 1 .. Len(Emitted) :
        (/\ Emitted[k].type = "Integer"
         /\ Emitted[k].repr \in {"Hexadecimal", "Octal", "Binary"})
            => Emitted[k].digits # <<>>

(* C9: directly after a radix prefix, a non-alphanumeric byte or the end   *)
(* of input fails with MissingDigitsAfterBasePrefix at that byte's offset  *)
(* (the buffer length at end of input); every emitted Hexadecimal, Octal   *)
(* or Binary integer has a non-empty digit sequence.                       *)
C9_MissingDigitsAfterPrefix ==
    [][/\ (RadixPrefixHere /\ ~IsAlphanumeric(ByteAt(script, i + 1)))
            => result' = ErrResult("MissingDigitsAfterBasePrefix", i)
       /\ RadixNonEmpty']_vars

(* "0x," failed on the comma.                                              *)
C9_Witness ==
    /\ script = <<B.zero, B.x, B.comma>>
    /\ result = ErrResult("MissingDigitsAfterBasePrefix", 2)
(* Start of the maximal run of identifier bytes that ends at position t.   *)
IdentRunStart(s, t) ==
    CHOOSE p \in 1 .. t :
        /\ \A k \in p .. t : IsIdentByte(s[k])
        /\ ~IsIdentByte(ByteAt(s, p - 1))

(* The last byte consumed belongs to a maximal run of letters, digits and  *)
(* underscores that starts with a letter or underscore.                    *)
InIdentRun ==
    /\ pc = "feed_script"
    /\ i >= 1
    /\ IsIdentByte(script[i])
    /\ IsIdentStart(script[IdentRunStart(script, i)])

(* The run starts with 'e' directly after the '.' of a decimal literal     *)
(* that has an integer part, as in "1.e5".                                 *)
ExponentMarkRun(s, p) ==
    /\ s[p] = B.e
    /\ p >= 3
    /\ s[p - 1] = B.dot
    /\ IsDigit(s[p - 2])
    /\ TokenInitial(s, DigitRunStart(s, p - 2))

(* The token of a whole run: its keyword, else Identifier with its bytes.  *)
RunToken(run) ==
    IF \E k \in DOMAIN Keywords : Keywords[k] = run
    THEN Tok(CHOOSE k \in DOMAIN Keywords : Keywords[k] = run)
    ELSE IdentifierToken(run)

IdentifiersWellFormed ==
    \A k \in 1 .. Len(Emitted) :
        Emitted[k].type = "Identifier"
            => /\ Emitted[k].bytes # <<>>
               /\ \A w \in DOMAIN Keywords : Keywords[w] # Emitted[k].bytes

(* The steps of a run: no token while the run goes on, and at its end      *)
(* (next byte or end of input) the one token of the run.                   *)
RunIsOneToken(covered) ==
    /\ (InIdentRun /\ covered /\ IsIdentByte(ByteAt(script, i + 1)))
            => NewTokens = <<>>
    /\ (InIdentRun /\ covered /\ ~IsIdentByte(ByteAt(script, i + 1)))
            => /\ Len(NewTokens) >= 1
               /\ NewTokens[1]
                    = RunToken(SubSeq(script, IdentRunStart(script, i), i))
               /\ i = Len(script) => Len(NewTokens) = 1
    /\ IdentifiersWellFormed'

(* C10 as claimed: every maximal run of letters, digits and underscores    *)
(* that starts with a letter or underscore is emitted as exactly one       *)
(* token, its keyword if the whole run is one of the twelve keywords, else *)
(* Identifier with the run's bytes; no Identifier is empty or a keyword.   *)
C10_IdentifierRun == [][RunIsOneToken(TRUE)]_vars

(* C10 amended: the same for every such run except one that starts with    *)
(* 'e' directly after the '.' of a decimal literal with an integer part    *)
(* (there the 'e' is the exponent mark of the float).                      *)
C10_IdentifierRunAmended ==
    [][RunIsOneToken(
          ~ExponentMarkRun(script, IdentRunStart(script, i)))]_vars

(* "letx" was tokenized as an identifier.                                  *)
C10_Witness ==
    /\ script = <<B.l, B.e, B.t, B.x>>
    /\ result = OkResult(<<IdentifierToken(<<B.l, B.e, B.t, B.x>>)>>)
(* ---------------------------------------------------------------------- *)
(* Single state-machine steps                                              *)
(* ---------------------------------------------------------------------- *)
(* The results of the successive run_fsm calls feed_byte makes for one     *)
(* byte, cut off after `fuel` calls.                                       *)
RECURSIVE FsmSteps(_, _, _)
FsmSteps(lx, byte, fuel) ==
    LET r == run_fsm(lx, byte)
    IN  IF r.ok /\ r.action = "Again" /\ fuel > 1
        THEN <<r>> \o FsmSteps(r.lx, byte, fuel - 1)
        ELSE <<r>>

(* The steps of the byte about to be fed, and the lexer each starts from.  *)
ByteSteps == FsmSteps(lexer, script[i + 1], StepFuel)
StepSource(steps, k) == IF k = 1 THEN lexer ELSE steps[k - 1].lx
FeedingByte == pc = "feed_script" /\ i < Len(script)

(* C16: every state-machine step that appends a token while processing a   *)
(* byte leaves the lexer in Start; none emits and stays elsewhere.         *)
C16_EmissionReturnsToStart ==
    FeedingByte =>
        \A k \in 1 .. Len(ByteSteps) :
            Len(ByteSteps[k].lx.tokens)
                > Len(StepSource(ByteSteps, k).tokens)
              => ByteSteps[k].lx.state = "Start"

(* The last byte consumed is an 'e' directly after a decimal integer that  *)
(* starts a token with 1-9.                                                *)
ExponentMarkHere ==
    /\ pc = "feed_script"
    /\ i >= 2
    /\ script[i] = B.e
    /\ IsDigit(script[i - 1])
    /\ script[DigitRunStart(script, i - 1)] \in B.one .. B.nine
    /\ TokenInitial(script, DigitRunStart(script, i - 1))

(* C17: in Exponent a non-digit byte, even directly after 'e', emits       *)
(* Float(Scientific) with the exponent accumulated so far, possibly empty, *)
(* and Exponent raises no error; at end of input an empty exponent fails   *)
(* with MissingDigitsAfterExponentMark at the buffer length.               *)
C17_ExponentAsymmetry ==
    [][/\ (/\ pc = "feed_script"
           /\ lexer.state = "Exponent"
           /\ i < Len(script)
           /\ ~IsDigit(ByteAt(script, i + 1)))
            => /\ Len(NewTokens) >= 1
               /\ NewTokens[1] = FloatScientific(lexer.integer,
                                    lexer.fractional, lexer.exponent)
               /\ result'.status = "Err"
                    => /\ result'.kind = "UnexpectedByte"
                       /\ ~StartAccepts(script[i + 1])
       /\ (ExponentMarkHere /\ i < Len(script)
              /\ ~IsDigit(ByteAt(script, i + 1)))
            => /\ Len(NewTokens) >= 1
               /\ NewTokens[1] = FloatScientific(
                     Values(SubSeq(script, DigitRunStart(script, i - 1),
                                   i - 1)), <<>>, <<>>)
       /\ (/\ pc = "feed_script"
           /\ lexer.state = "Exponent"
           /\ i = Len(script)
           /\ lexer.exponent = <<>>)
            => /\ result' = ErrResult("MissingDigitsAfterExponentMark",
                                      Len(script))
               /\ NewTokens = <<>>
       /\ (ExponentMarkHere /\ i = Len(script))
            => result' = ErrResult("MissingDigitsAfterExponentMark",
                                   Len(script))]_vars

(* "1e," gave a Scientific float with an empty exponent, then Comma.       *)
C17_Witness ==
    /\ script = <<B.one, B.e, B.comma>>
    /\ result = OkResult(<<FloatScientific(<<1>>, <<>>, <<>>),
                           Tok("Comma")>>)

BuffersEmpty(lx) ==
    /\ lx.identifier = <<>>
    /\ lx.integer = <<>>
    /\ lx.fractional = <<>>
    /\ lx.exponent = <<>>

(* C18: whenever the lexer is in Start, and after every state-machine step *)
(* or end-of-input finalization that emitted a token, the identifier,      *)
(* integer, fractional and exponent buffers are all empty.                 *)
C18_BuffersResetOnEmission ==
    /\ lexer.state = "Start" => BuffersEmpty(lexer)
    /\ FeedingByte =>
          \A k \in 1 .. Len(ByteSteps) :
              Len(ByteSteps[k].lx.tokens)
                  > Len(StepSource(ByteSteps, k).tokens)
                => BuffersEmpty(ByteSteps[k].lx)
    /\ result.status = "Ok" => BuffersEmpty(lexer)

(* ".9,1" : a float, a comma and an integer, each from clean buffers.      *)
C18_Witness ==
    /\ script = <<B.dot, B.nine, B.comma, B.one>>
    /\ result = OkResult(<<FloatDecimal(<<>>, <<9>>), Tok("Comma"),
                           IntegerToken("Decimal", <<1>>)>>)
    /\ BuffersEmpty(lexer)

RECURSIVE TotalSteps(_, _, _)
TotalSteps(lx, s, k) ==
    IF k > Len(s) THEN 0
    ELSE LET steps == FsmSteps(lx, s[k], StepFuel)
         IN  IF steps[Len(steps)].ok
             THEN Len(steps) + TotalSteps(steps[Len(steps)].lx, s, k + 1)
             ELSE Len(steps)

(* C19: one byte takes at most two state-machine steps: every Again leaves *)
(* the lexer in Start and Start never answers Again; so a whole input      *)
(* takes at most twice its length in steps, and each loop iteration either *)
(* consumes one byte or ends tokenize.                                     *)
C19_AtMostTwoSteps ==
    /\ FeedingByte =>
          /\ Len(ByteSteps) <= 2
          /\ \A k \in 1 .. Len(ByteSteps) :
                (ByteSteps[k].ok /\ ByteSteps[k].action = "Again")
                  => /\ ByteSteps[k].lx.state = "Start"
                     /\ StepSource(ByteSteps, k).state # "Start"
                     /\ k = 1
    /\ i = 0 => TotalSteps(lexer, script, 1) <= 2 * Len(script)

(* "1," needs the reconsume: Integer emits, then Start takes the comma.    *)
C19_Witness ==
    /\ script = <<B.one, B.comma>>
    /\ result = OkResult(<<IntegerToken("Decimal", <<1>>), Tok("Comma")>>)
    /\ TotalSteps(NewLexer, script, 1) = 3
(* ---------------------------------------------------------------------- *)
(* Vocabulary of the parser properties                                     *)
(* ---------------------------------------------------------------------- *)
(* parse has returned.                                                     *)
Done == stack = <<>> /\ ret # NoReturn

Operators == {"Plus", "Minus", "Asterisk", "ForwardSlash"}
IsOperand(token) == token.type \in {"Identifier", "Integer", "Float"}

(* The expression grammar, as a recognizer of whole token sequences:       *)
(*   term    = factor  (('+' | '-') factor)*                               *)
(*   factor  = primary (('*' | '/') primary)*                              *)
(*   primary = operand | '(' term ')'                                      *)
RECURSIVE IsTerm(_), IsFactor(_), IsPrimary(_)
IsPrimary(s) ==
    \/ Len(s) = 1 /\ IsOperand(s[1])
    \/ /\ Len(s) >= 3
       /\ s[1].type = "LeftParenthesis"
       /\ s[Len(s)].type = "RightParenthesis"
       /\ IsTerm(SubSeq(s, 2, Len(s) - 1))
IsFactor(s) ==
    \/ IsPrimary(s)
    \/ \E k \in 2 .. Len(s) - 1 :
          /\ s[k].type \in {"Asterisk", "ForwardSlash"}
          /\ IsFactor(SubSeq(s, 1, k - 1))
          /\ IsPrimary(SubSeq(s, k + 1, Len(s)))
IsTerm(s) ==
    \/ IsFactor(s)
    \/ \E k \in 2 .. Len(s) - 1 :
          /\ s[k].type \in {"Plus", "Minus"}
          /\ IsTerm(SubSeq(s, 1, k - 1))
          /\ IsFactor(SubSeq(s, k + 1, Len(s)))

HeadOK(ts) ==
    /\ Len(ts) >= 3
    /\ ts[1].type = "Let"
    /\ ts[2].type = "Identifier"
    /\ ts[3].type = "Assign"

(* The offsets at which a well-formed expression that starts after the     *)
(* head ends without a binary operator behind it.                          *)
ExpressionEnds(ts) ==
    {n \in 4 .. Len(ts) :
        /\ IsTerm(SubSeq(ts, 4, n))
        /\ n = Len(ts) \/ ts[n + 1].type \notin Operators}

(* The operand and operator tokens of a tree, left to right.               *)
OperatorOf(type) ==
    CASE type = "BinaryAddition" -> "Plus"
      [] type = "BinarySubtraction" -> "Minus"
      [] type = "BinaryMultiplication" -> "Asterisk"
      [] type = "BinaryDivision" -> "ForwardSlash"
      [] OTHER -> "None"

RECURSIVE Flatten(_)
Flatten(node) ==
    CASE node.type = "Identifier" -> <<IdentifierToken(node.bytes)>>
      [] node.type = "IntegerLiteral" -> <<[node EXCEPT !.type = "Integer"]>>
      [] node.type = "FloatLiteral" -> <<[node EXCEPT !.type = "Float"]>>
      [] OTHER -> Flatten(node.left_operand)
                    \o <<Tok(OperatorOf(node.type))>>
                    \o Flatten(node.right_operand)

IsParenthesis(token) ==
    token.type \in {"LeftParenthesis", "RightParenthesis"}
NotParenthesis(token) == ~IsParenthesis(token)
StripParentheses(s) == SelectSeq(s, NotParenthesis)

(* C11: parse returns Ok exactly when the tokens are Let, an Identifier,   *)
(* Assign and a well-formed expression; every other sequence, the empty    *)
(* one included, yields UnexpectedToken; on success the root is Assign,    *)
(* its left operand Identifier with the bytes of the second token, its     *)
(* right operand the tree of the expression's tokens.                      *)
C11_LetStatement ==
    Done =>
        /\ ret.status = "Ok"
              <=> (HeadOK(parser.tokens)
                     /\ ExpressionEnds(parser.tokens) # {})
        /\ ret.status # "Ok" => ret = UnexpectedToken
        /\ ret.status = "Ok"
              => /\ ret.node.type = "Assign"
                 /\ ret.node.left_operand
                      = [type |-> "Identifier",
                         bytes |-> parser.tokens[2].bytes]
                 /\ ret.node.right_operand.type # "Assign"
                 /\ Flatten(ret.node.right_operand)
                      = StripParentheses(
                          SubSeq(parser.tokens, 4, parser.offset))

(* let x = 1.5 + x and one more token were parsed.                         *)
C11_Witness ==
    /\ Done
    /\ Len(parser.tokens) = 7
    /\ ret = OkNode(BinaryNode("Assign", [type |-> "Identifier",
                                          bytes |-> <<B.x>>],
             BinaryNode("BinaryAddition",
                 [type |-> "FloatLiteral", repr |-> "Decimal",
                  integer |-> <<1>>, fractional |-> <<5>>],
                 [type |-> "Identifier", bytes |-> <<B.x>>])))
(* ---------------------------------------------------------------------- *)
(* Reference reading of an expression                                      *)
(* ---------------------------------------------------------------------- *)
CountOf(s, type) == Cardinality({k \in 1 .. Len(s) : s[k].type = type})

(* Number of parentheses open in front of position k.                      *)
Depth(s, k) ==
    CountOf(SubSeq(s, 1, k - 1), "LeftParenthesis")
      - CountOf(SubSeq(s, 1, k - 1), "RightParenthesis")

TopLevel(s, types) ==
    {k \in 1 .. Len(s) : s[k].type \in types /\ Depth(s, k) = 0}

Last(S) == CHOOSE k \in S : \A m \in S : m <= k

BinaryType(type) ==
    CASE type = "Plus" -> "BinaryAddition"
      [] type = "Minus" -> "BinarySubtraction"
      [] type = "Asterisk" -> "BinaryMultiplication"
      [] type = "ForwardSlash" -> "BinaryDivision"

Leaf(token) ==
    CASE token.type = "Identifier" -> ASTIdentifier(token)
      [] token.type = "Integer" -> IntegerLiteral(token)
      [] token.type = "Float" -> FloatLiteral(token)

(* The tree a well-formed expression denotes: it splits at its last '+' or *)
(* '-' outside parentheses, else at its last '*' or '/' outside            *)
(* parentheses, else it is a parenthesised expression or an operand.       *)
RECURSIVE ExpectedTree(_)
ExpectedTree(s) ==
    LET low == TopLevel(s, {"Plus", "Minus"})
        high == TopLevel(s, {"Asterisk", "ForwardSlash"})
        SplitAt(k) == BinaryNode(BinaryType(s[k].type),
                          ExpectedTree(SubSeq(s, 1, k - 1)),
                          ExpectedTree(SubSeq(s, k + 1, Len(s))))
    IN  IF low # {} THEN SplitAt(Last(low))
        ELSE IF high # {} THEN SplitAt(Last(high))
        ELSE IF s[1].type = "LeftParenthesis"
        THEN ExpectedTree(SubSeq(s, 2, Len(s) - 1))
        ELSE Leaf(s[1])

IsLoose(node) == node.type \in {"BinaryAddition", "BinarySubtraction"}
IsTight(node) == node.type \in {"BinaryMultiplication", "BinaryDivision"}
IsBinary(node) == IsLoose(node) \/ IsTight(node)

(* Number of '+' or '-' nodes that are a direct operand of a '*' or '/'.   *)
RECURSIVE LooseUnderTight(_)
LooseUnderTight(node) ==
    IF ~IsBinary(node) THEN 0
    ELSE LooseUnderTight(node.left_operand)
           + LooseUnderTight(node.right_operand)
           + (IF IsTight(node) /\ IsLoose(node.left_operand) THEN 1 ELSE 0)
           + (IF IsTight(node) /\ IsLoose(node.right_operand) THEN 1 ELSE 0)

(* The tokens behind the head, and those of them the parser has consumed.  *)
Rest == SubSeq(parser.tokens, 4, Len(parser.tokens))
Consumed == SubSeq(parser.tokens, 4, parser.offset)

Sum12 == BinaryNode("BinaryAddition",
            IntegerLiteral(NthOperand(1)), IntegerLiteral(NthOperand(2)))
Product23 == BinaryNode("BinaryMultiplication",
            IntegerLiteral(NthOperand(2)), IntegerLiteral(NthOperand(3)))
LetX(node) ==
    OkNode(BinaryNode("Assign", ASTIdentifier(IdentifierToken(<<B.x>>)),
                      node))

(* C12: '*' and '/' bind tighter than '+' and '-'.  The tree parse returns *)
(* is the one its tokens denote; a '*' or '/' node has a '+' or '-' node   *)
(* as a direct operand only where the tokens have a parenthesised          *)
(* sub-expression, so never in a sequence without parentheses;             *)
(* 1 + 2 * 3 gives Addition(1, Multiplication(2, 3)) and (1 + 2) * 3 gives *)
(* Multiplication(Addition(1, 2), 3).                                      *)
C12_Precedence ==
    Done =>
        /\ ret.status = "Ok" =>
              /\ ret.node.right_operand = ExpectedTree(Consumed)
              /\ LooseUnderTight(ret.node.right_operand)
                    <= CountOf(Consumed, "LeftParenthesis")
        /\ Rest = <<NthOperand(1), Tok("Plus"), NthOperand(2),
                    Tok("Asterisk"), NthOperand(3)>>
              => ret = LetX(BinaryNode("BinaryAddition",
                             IntegerLiteral(NthOperand(1)), Product23))
        /\ Rest = <<Tok("LeftParenthesis"), NthOperand(1), Tok("Plus"),
                    NthOperand(2), Tok("RightParenthesis"),
                    Tok("Asterisk"), NthOperand(3)>>
              => ret = LetX(BinaryNode("BinaryMultiplication", Sum12,
                             IntegerLiteral(NthOperand(3))))

(* let x = (1 + 2) * 3 was parsed.                                         *)
C12_Witness ==
    /\ Done
    /\ Len(Rest) = 7
    /\ ret = LetX(BinaryNode("BinaryMultiplication", Sum12,
                      IntegerLiteral(NthOperand(3))))
SameLevel(node, operand) ==
    \/ IsLoose(node) /\ IsLoose(operand)
    \/ IsTight(node) /\ IsTight(operand)

(* No node of the tree has a node of its own level as right operand.       *)
RECURSIVE LeftLeaning(_)
LeftLeaning(node) ==
    IsBinary(node) =>
        /\ ~SameLevel(node, node.right_operand)
        /\ LeftLeaning(node.left_operand)
        /\ LeftLeaning(node.right_operand)

(* C13: operators of one level associate to the left.  Without             *)
(* parentheses the right operand of a node is never a node of the same     *)
(* level, and a op1 b op2 c with op1, op2 both in {+,-} or both in {*,/}   *)
(* parses to op2(op1(a, b), c).                                            *)
C13_LeftAssociative ==
    Done =>
        /\ ret.status = "Ok" /\ CountOf(Consumed, "LeftParenthesis") = 0
              => LeftLeaning(ret.node.right_operand)
        /\ /\ Len(Rest) = 5
           /\ \A k \in {1, 3, 5} : IsOperand(Rest[k])
           /\ \/ {Rest[2].type, Rest[4].type} \subseteq {"Plus", "Minus"}
              \/ {Rest[2].type, Rest[4].type}
                    \subseteq {"Asterisk", "ForwardSlash"}
           => ret = LetX(BinaryNode(BinaryType(Rest[4].type),
                           BinaryNode(BinaryType(Rest[2].type),
                               Leaf(Rest[1]), Leaf(Rest[3])),
                           Leaf(Rest[5])))

(* let x = 1 - 2 + 3 was parsed.                                           *)
C13_Witness ==
    /\ Done
    /\ Len(Rest) = 5
    /\ ret = LetX(BinaryNode("BinaryAddition",
                 BinaryNode("BinarySubtraction",
                     IntegerLiteral(NthOperand(1)),
                     IntegerLiteral(NthOperand(2))),
                 IntegerLiteral(NthOperand(3))))
(* tokenize on a whole script, as a function of the script.                *)
TokensOf(s) ==
    LET fed == FeedFrom(NewLexer, s, 1)
    IN  IF fed.ok /\ feed_eof(fed.lx).ok
        THEN feed_eof(fed.lx).lx.tokens
        ELSE <<>>

(* let x = 123;                                                            *)
LetExample == <<B.l, B.e, B.t, B.space, B.x, B.space, B.equals, B.space,
                B.one, B.two, B.three, B.semicolon>>

(* C14: the let statement neither requires nor consumes anything behind    *)
(* its expression.  When a well-formed expression is followed by a token   *)
(* that is not Plus, Minus, Asterisk or ForwardSlash, or by nothing, parse *)
(* returns Ok with the cursor at the index of that token; the tokens of    *)
(* let x = 123; give Assign(Identifier x, IntegerLiteral Decimal [1,2,3])  *)
(* with the cursor at the Semicolon, offset 4 of 5.                        *)
C14_TrailingTokenLeft ==
    Done =>
        /\ HeadOK(parser.tokens) =>
              \A n \in ExpressionEnds(parser.tokens) :
                  ret.status = "Ok" /\ parser.offset = n
        /\ ret.status = "Ok" => peek(parser).type \notin Operators
        /\ parser.tokens = TokensOf(LetExample) =>
              /\ ret = LetX(IntegerLiteral(
                             IntegerToken("Decimal", <<1, 2, 3>>)))
              /\ parser.offset = 4
              /\ parser.length = 5
              /\ peek(parser) = Tok("Semicolon")

(* The tokens of let x = 123; were parsed.                                 *)
C14_Witness ==
    /\ Done
    /\ parser.tokens = TokensOf(LetExample)
    /\ Len(parser.tokens) = 5
    /\ parser.offset = 4
PrimaryStarts == {"Identifier", "Integer", "Float", "LeftParenthesis"}

(* The statement is let x = ( inner ... with inner a well-formed           *)
(* expression that ends at offset n.                                       *)
InnerEndsAt(n) ==
    /\ HeadOK(parser.tokens)
    /\ n \in 5 .. Len(parser.tokens)
    /\ parser.tokens[4].type = "LeftParenthesis"
    /\ IsTerm(SubSeq(parser.tokens, 5, n))

FollowedBy(n, types) ==
    n < Len(parser.tokens) /\ parser.tokens[n + 1].type \in types

(* What parse returns for a parenthesised expression.                      *)
ParenthesisedResult ==
    Done =>
        \A n \in 5 .. Len(parser.tokens) :
            InnerEndsAt(n) =>
                /\ ~FollowedBy(n, Operators \cup {"RightParenthesis"})
                      => ret = UnexpectedToken
                /\ /\ FollowedBy(n, {"RightParenthesis"})
                   /\ ~FollowedBy(n + 1, Operators)
                   => /\ ret = LetX(ExpectedTree(
                                     SubSeq(parser.tokens, 5, n)))
                      /\ parser.offset = n + 1

(* The steps of parse_primary.                                             *)
PrimarySteps ==
    /\ At("parse_primary", "entry")
          /\ peek(parser).type \notin PrimaryStarts
          => ret' = UnexpectedToken /\ stack' = Pop
    /\ At("parse_primary", "parse_expression") /\ ret.status = "Ok"
          => /\ stack' = Pop
             /\ IF peek(parser).type = "RightParenthesis"
                THEN ret' = ret /\ parser'.offset = parser.offset + 1
                ELSE ret' = UnexpectedToken
    /\ ret = UnexpectedToken => ret' = UnexpectedToken

(* C15: a primary that starts with LeftParenthesis yields the node of the  *)
(* inner expression itself and consumes the RightParenthesis behind it; if *)
(* the token behind the inner expression is not RightParenthesis, or the   *)
(* tokens are exhausted, parse fails with UnexpectedToken, and so does a   *)
(* primary that starts with a token other than Identifier, Integer, Float  *)
(* or LeftParenthesis.                                                     *)
C15_ParenthesisedPrimary == []ParenthesisedResult /\ [][PrimarySteps]_vars

(* let x = ( 123 ) and one more token were parsed.                         *)
C15_Witness ==
    /\ Done
    /\ Len(parser.tokens) = 7
    /\ parser.tokens[4].type = "LeftParenthesis"
    /\ parser.offset = 6
    /\ ret = LetX(IntegerLiteral(IntegerToken("Decimal", <<1, 2, 3>>)))
(* The cursor is within the tokens, and peek and consume answer as their   *)
(* contract says at this cursor.                                           *)
CursorOK ==
    /\ parser.length = Len(parser.tokens)
    /\ 0 <= parser.offset
    /\ parser.offset <= parser.length
    /\ LET c == consume(parser)
       IN  IF parser.offset < parser.length
           THEN /\ peek(parser) = parser.tokens[parser.offset + 1]
                /\ c.token = peek(parser)
                /\ c.parser = [parser EXCEPT !.offset = @ + 1]
           ELSE /\ peek(parser) = eof_token
                /\ c.token = eof_token
                /\ c.parser = parser

(* A step moves the cursor forward only, never past the end, and a step    *)
(* that only peeks leaves it where it is.                                  *)
CursorSteps ==
    /\ parser'.tokens = parser.tokens
    /\ parser'.length = parser.length
    /\ parser'.offset >= parser.offset
    /\ parser'.offset <= parser.length
    /\ parser.offset = parser.length => parser' = parser
    /\ /\ \/ At("parse_term", "parse_factor")
          \/ At("parse_factor", "parse_primary")
       /\ ret.status = "Ok"
       /\ peek(parser).type \notin Operators
       => parser' = parser

(* C20: in every reachable parser state 0 <= offset <= length; peek never  *)
(* changes the offset, consume advances it by exactly one when             *)
(* offset < length, and at offset = length both return the EOF sentinel    *)
(* and leave the offset unchanged; the offset never decreases and never    *)
(* passes the end.                                                         *)
C20_CursorInBounds == []CursorOK /\ [][CursorSteps]_vars

(* let x = ( 123 was parsed: the closing parenthesis was looked for at the *)
(* end of the tokens.                                                      *)
C20_Witness ==
    /\ Done
    /\ parser.length = 5
    /\ parser.offset = 5
    /\ parser.tokens[4].type = "LeftParenthesis"
    /\ IsOperand(parser.tokens[5])
    /\ ret = UnexpectedToken
ReservedWords == {"And", "Or", "Not", "Xor"}

(* Every node below is an operand or one of the four binary operations.    *)
RECURSIVE Arithmetic(_)
Arithmetic(node) ==
    \/ node.type \in {"Identifier", "IntegerLiteral", "FloatLiteral"}
    \/ /\ node.type \in {"BinaryAddition", "BinarySubtraction",
                          "BinaryMultiplication", "BinaryDivision"}
       /\ Arithmetic(node.left_operand)
       /\ Arithmetic(node.right_operand)

(* Token j of the statement is a reserved word, or a sign where an operand *)
(* is due: at the start of the expression, behind an operator or behind a  *)
(* left parenthesis.                                                       *)
Unparsable(j) ==
    \/ parser.tokens[j].type \in ReservedWords
    \/ /\ parser.tokens[j].type \in {"Plus", "Minus"}
       /\ parser.tokens[j - 1].type
             \in Operators \cup {"Assign", "LeftParenthesis"}

(* C21: logical and unary operators are unreachable from parse.  A tree    *)
(* parse returns is Assign at the root, Identifier at its left, and below  *)
(* its right only operands and the four binary operations; a reserved word *)
(* And, Or, Not, Xor, or a Plus or Minus in operand position, makes parse  *)
(* fail with UnexpectedToken or is left unconsumed behind the expression.  *)
C21_ReservedUnreachable ==
    Done =>
        /\ ret.status = "Ok" =>
              /\ ret.node.type = "Assign"
              /\ ret.node.left_operand.type = "Identifier"
              /\ Arithmetic(ret.node.right_operand)
        /\ ret.status # "Ok" => ret = UnexpectedToken
        /\ HeadOK(parser.tokens) =>
              \A j \in 4 .. Len(parser.tokens) :
                  Unparsable(j) =>
                      \/ ret = UnexpectedToken
                      \/ ret.status = "Ok" /\ parser.offset < j

(* let x = x and x was parsed: the expression stopped in front of and.     *)
C21_Witness ==
    /\ Done
    /\ Rest = <<IdentifierToken(<<B.x>>), Tok("And"),
                IdentifierToken(<<B.x>>)>>
    /\ ret = LetX(ASTIdentifier(IdentifierToken(<<B.x>>)))
    /\ parser.offset = 4
HexadecimalDigits ==
    (B.zero .. B.nine) \cup (B.A .. B.F) \cup (B.a .. B.f)
OctalDigits == B.zero .. B.seven
BinaryDigits == B.zero .. B.one

(* The bytes consumed so far end inside a radix literal: a token-initial   *)
(* '0', the prefix letter, and digits of the radix only, possibly none.    *)
InRadixLiteral(letter, digits) ==
    /\ pc = "feed_script"
    /\ \E p \in 1 .. i - 1 :
          /\ script[p] = B.zero
          /\ TokenInitial(script, p)
          /\ script[p + 1] = letter
          /\ \A k \in p + 2 .. i : script[k] \in digits

InvalidDigitNext(letter, digits) ==
    /\ InRadixLiteral(letter, digits)
    /\ IsAlphanumeric(ByteAt(script, i + 1))
    /\ ByteAt(script, i + 1) \notin digits

(* C22: inside a radix literal an alphanumeric byte out of range fails     *)
(* with the error of that radix at that byte's offset:                     *)
(* InvalidHexadecimalDigit for G-Z and g-z, InvalidOctalDigit for 8-9 and  *)
(* every letter, InvalidBinaryDigit for 2-9 and every letter; also         *)
(* directly behind the prefix, where no digit has been accumulated yet.    *)
C22_InvalidRadixDigit ==
    [][/\ InvalidDigitNext(B.x, HexadecimalDigits)
            => /\ ByteAt(script, i + 1) \in (B.G .. B.Z) \cup (B.g .. B.z)
               /\ result' = ErrResult("InvalidHexadecimalDigit", i)
       /\ InvalidDigitNext(B.o, OctalDigits)
            => result' = ErrResult("InvalidOctalDigit", i)
       /\ InvalidDigitNext(B.b, BinaryDigits)
            => result' = ErrResult("InvalidBinaryDigit", i)]_vars

(* "0b2" failed on the byte behind the prefix.                             *)
C22_Witness ==
    /\ script = <<B.zero, B.b, B.two>>
    /\ Returned
    /\ result = ErrResult("InvalidBinaryDigit", 2)
PrefixState(byte) ==
    CASE byte = B.x -> "Hexadecimal"
      [] byte = B.o -> "Octal"
      [] byte = B.b -> "Binary"

ZeroLetterSteps ==
    /\ (/\ ZeroStartsTokenHere
        /\ IsLetter(ByteAt(script, i + 1))
        /\ ByteAt(script, i + 1) \notin {B.x, B.o, B.b})
          => result' = ErrResult("InvalidNumberDigit", i)
    /\ (ZeroStartsTokenHere /\ ByteAt(script, i + 1) \in {B.x, B.o, B.b})
          => /\ i' = i + 1
             /\ result' = Pending
             /\ lexer'.state = PrefixState(script[i + 1])
             /\ BuffersEmpty(lexer')
             /\ NewTokens = <<>>

ZeroExamples ==
    Returned =>
        /\ script = <<B.zero, B.e, B.one>>
              => result = ErrResult("InvalidNumberDigit", 1)
        /\ script = <<B.zero, B.dot, B.e, B.one>>
              => result = OkResult(
                     <<FloatScientific(<<0>>, <<>>, <<1>>)>>)
        /\ script = <<B.one, B.e, B.one>>
              => result = OkResult(
                     <<FloatScientific(<<1>>, <<>>, <<1>>)>>)

(* C23: behind a token-initial '0' every ASCII letter other than           *)
(* lowercase x, o, b fails with InvalidNumberDigit at that letter's        *)
(* offset, 'e' and uppercase X, O, B included; "0e1" is rejected while     *)
(* "0.e1" and "1e1" are accepted; the three prefix letters are consumed    *)
(* without buffering a digit.                                              *)
C23_ZeroLetters == []ZeroExamples /\ [][ZeroLetterSteps]_vars

(* "0e1" failed on the e.                                                  *)
C23_Witness ==
    /\ script = <<B.zero, B.e, B.one>>
    /\ Returned
    /\ result = ErrResult("InvalidNumberDigit", 1)
(* No Float token pushed so far has both digit sequences empty, and the    *)
(* buffers hold a digit whenever a Float is being accumulated.             *)
FloatsHaveDigits ==
    /\ \A k \in 1 .. Len(Emitted) :
          Emitted[k].type = "Float"
              => Emitted[k].integer # <<>> \/ Emitted[k].fractional # <<>>
    /\ (pc = "feed_script" /\ lexer.state \in {"Fractional", "Exponent"})
          => lexer.integer # <<>> \/ lexer.fractional # <<>>

FractionalEntry ==
    /\ (lexer.state # "Fractional" /\ lexer'.state = "Fractional")
          => /\ lexer.state \in {"Dot", "Zero", "Integer"}
             /\ lexer.state = "Dot"
                  => /\ IsDigit(script[i + 1])
                     /\ lexer'.integer = <<>>
                     /\ lexer'.fractional = <<script[i + 1] - B.zero>>
             /\ lexer.state \in {"Zero", "Integer"}
                  => /\ script[i + 1] = B.dot
                     /\ lexer'.integer # <<>>
                     /\ lexer'.fractional = <<>>
    /\ (/\ pc = "feed_script"
        /\ lexer.state = "Dot"
        /\ ~IsDigit(ByteAt(script, i + 1)))
          => /\ Len(NewTokens) >= 1
             /\ NewTokens[1] = Tok("Dot")
             /\ \A k \in 1 .. Len(NewTokens) : NewTokens[k].type # "Float"

(* C24: no Float token emitted by tokenize has both its integer and its    *)
(* fractional digit sequence empty.  Fractional is entered from Dot only   *)
(* with a first fractional digit buffered and from Zero or Integer only    *)
(* with a non-empty integer part; a '.' not followed by a digit is emitted *)
(* as the Dot token.                                                       *)
C24_FloatHasDigits == []FloatsHaveDigits /\ [][FractionalEntry]_vars

(* ".9" gave a Float without integer digits, ".," a Dot.                   *)
C24_Witness ==
    /\ script = <<B.dot, B.nine, B.comma, B.dot, B.comma>>
    /\ Returned
    /\ result = OkResult(<<FloatDecimal(<<>>, <<9>>), Tok("Comma"),
                           Tok("Dot"), Tok("Comma")>>)
(* A step pushes at most four frames, and only after consuming a token.    *)
Measure == Len(stack) + 5 * (parser.length - parser.offset)

(* Parenthesised primaries whose inner expression is being parsed.         *)
OpenPrimaries ==
    Cardinality({k \in 1 .. Len(stack) :
        stack[k].fn = "parse_primary" /\ stack[k].at = "parse_expression"})

DepthBounded ==
    /\ OpenPrimaries
         <= CountOf(SubSeq(parser.tokens, 1, parser.offset),
                    "LeftParenthesis")
    /\ Len(stack) <= 5 + 4 * OpenPrimaries
    /\ Measure >= 0
    /\ Measure <= 1 + 5 * parser.length

(* C25: parse terminates on every finite token sequence.  Every step that  *)
(* repeats a loop or descends into a parenthesised expression consumes a   *)
(* token first, so a measure bounded by the token count decreases with     *)
(* every step, and the depth of the calls is bounded by the number of      *)
(* LeftParenthesis tokens consumed.                                        *)
C25_ParseTerminates ==
    /\ <>Done
    /\ []DepthBounded
    /\ [][Measure' < Measure]_vars

(* let x = ( ( ( ( : four parenthesised primaries are open, each on top of *)
(* its own expression, term and factor.                                    *)
C25_Witness ==
    /\ OpenPrimaries = 4
    /\ Len(stack) = 21
    /\ parser.offset = 7
    /\ parser.length = 7
====
